---- MODULE Spec2Model ----
(***************************************************************************)
(* concurrentmap.Map: a Go map guarded by one sync.RWMutex.                *)
(*                                                                         *)
(* Every method is cut into steps at its lock operations and at its        *)
(* accesses of m.items; a label "get56" is the position before line 56 of  *)
(* concurrentmap.go.  Steps that touch only locals of the calling          *)
(* goroutine (the return, the test of found) are joined to the step        *)
(* before them.                                                            *)
(***************************************************************************)
EXTENDS Integers, Sequences, FiniteSets, TLC

\* ------------------------------------------------------------------ bounds
\* goroutines that call any of the ten methods, and the calls each makes
NThreads == 2
MaxOps == 1
\* goroutines that race on one key, storing their own ids
NRacers == 3
\* calls of the one goroutine that works alone
MaxSeqOps == 3
NKeys == 2
NVals == 2

\* All goroutines there are; a specification lets some of them run.
Threads == 1..NRacers
Users == 1..NThreads
Keys == 1..NKeys
Vals == 1..NVals
\* The zero value of interface{} (nil) and "no goroutine".
Nil == 0
None == 0

VARIABLES
  items,     \* m.items: a function from the present keys to their values
  rheld,     \* RWMutex: shared locks held, per goroutine
  rblocked,  \* RWMutex: goroutines asleep in RLock behind an announced writer
  w,         \* RWMutex: the goroutine that owns rw.w and has announced itself
  wActive,   \* RWMutex: that writer has passed the wait for the readers
  pc,        \* per goroutine: position in the code
  op,        \* per goroutine: the method called by the user (kept after return)
  cb,        \* per goroutine: the method the Range callback is calling, or "none"
  key, val,  \* per goroutine: arguments of the innermost method
  value, found, \* per goroutine: results of the last m.Get (lines 54, 56)
  size,      \* per goroutine: the result variable of Size (line 96)
  visited,   \* per goroutine: keys the for-range loop has produced
  result,    \* per goroutine: the slice built by Keys / Values
  ret,       \* per goroutine: what the last finished call returned
  cnt,       \* per goroutine: calls started
  ncomp,     \* history: compFunction invocations of the current call
  chk,       \* history: was the key present when this call's m.Get read it
  wr,        \* history: the current call has written m.items
  xl,        \* history: the current call has acquired the exclusive lock
  lastx,     \* history: the goroutine that acquired the exclusive lock last
  hist,      \* history: per key, the last completed write ("never" if none)
  items0,    \* history: m.items when the goroutines started
  pre,       \* history: m.items when the current call was made
  prev       \* history: the call the goroutine made before the current one

lockv == <<rheld, rblocked, w, wActive>>
locals == <<key, val, value, found, size, visited, result>>
\* the history variables no lock operation writes
ghosts == <<ncomp, chk, wr, hist, items0, pre, prev>>
vars == <<items, rheld, rblocked, w, wActive, pc, op, cb, key, val, value, found,
          size, visited, result, ret, cnt, ncomp, chk, wr, xl, lastx, hist, items0,
          pre, prev>>

\* ------------------------------------------------------------- the map
\* All maps a sequence of Put calls can build.
MapsOver(KS, VS) == UNION {[D -> VS] : D \in SUBSET KS}
Maps == MapsOver(Keys, Vals)

Present(m, k) == k \in DOMAIN m
\* v, ok := m[k]
Lookup(m, k) == IF k \in DOMAIN m THEN m[k] ELSE Nil
\* An assignment that keeps the value a present key has.
StoreIfAbsent(m, k, v) == [x \in DOMAIN m \cup {k} |-> IF x \in DOMAIN m THEN m[x] ELSE v]

\* m[k] = v
Store(m, k, v) == [x \in DOMAIN m \cup {k} |-> IF x = k THEN v ELSE m[x]]
\* A removal that keeps the key and drops only its value.
DeleteKeepsKey(m, k) == [x \in DOMAIN m |-> IF x = k THEN Nil ELSE m[x]]
\* delete(m, k)
Delete(m, k) == [x \in DOMAIN m \ {k} |-> m[x]]
\* make(map[interface{}]interface{})
EmptyMap == [x \in {} |-> Nil]
\* len(m)
MapLen(m) == Cardinality(DOMAIN m)

\* ---------------------------------------------------------- sync.RWMutex
RECURSIVE SumOver(_, _)
SumOver(f, S) == IF S = {} THEN 0
                 ELSE LET x == CHOOSE y \in S : TRUE IN f[x] + SumOver(f, S \ {x})
\* The readers a writer has to wait for.
Readers(rh) == SumOver(rh, Threads)

\* Where a goroutine continues once the lock it sleeps for is granted.
Granted(l) ==
  CASE l = "get55" -> "get56"
    [] l = "size97" -> "size98"
    [] l = "keys45" -> "keys46"
    [] l = "values34" -> "values35"
    [] l = "range22" -> "range23"
    [] l = "put69" -> "put70"
    [] l = "remove88" -> "remove89"
    [] l = "clear105" -> "clear106"
    [] OTHER -> l

\* m.mu.RLock(): enters unless a writer has announced itself; then it sleeps
\* until that writer's Unlock.
RLock(t) ==
  /\ t \notin rblocked
  /\ IF w = None
       THEN /\ rheld' = [rheld EXCEPT ![t] = @ + 1]
            /\ pc' = [pc EXCEPT ![t] = Granted(pc[t])]
            /\ UNCHANGED rblocked
       ELSE /\ rblocked' = rblocked \cup {t}
            /\ UNCHANGED <<rheld, pc>>
  /\ UNCHANGED <<w, wActive, xl, lastx>>

\* m.mu.RUnlock(): the last reader an announced writer waits for wakes it.
RUnlock(t, next) ==
  LET rh == [rheld EXCEPT ![t] = @ - 1]
      wake == w # None /\ ~wActive /\ Readers(rh) = 0
  IN /\ rheld' = rh
     /\ wActive' = (wActive \/ wake)
     /\ pc' = [u \in Threads |->
                 IF u = t THEN next
                 ELSE IF wake /\ u = w THEN Granted(pc[u]) ELSE pc[u]]
     /\ xl' = [u \in Threads |-> xl[u] \/ (wake /\ u = w)]
     /\ lastx' = IF wake THEN w ELSE lastx
     /\ UNCHANGED <<w, rblocked>>

\* A lock that lets a writer in while readers hold it.
LockIgnoresReaders(t) ==
  /\ w = None
  /\ w' = t
  /\ wActive' = TRUE
  /\ pc' = [pc EXCEPT ![t] = Granted(pc[t])]
  /\ xl' = [xl EXCEPT ![t] = TRUE]
  /\ lastx' = t
  /\ UNCHANGED <<rheld, rblocked>>

\* A lock that lets its caller in past the shared locks the caller holds.
LockReentrant(t) ==
  /\ w = None
  /\ w' = t
  /\ IF Readers(rheld) - rheld[t] = 0
       THEN /\ wActive' = TRUE
            /\ pc' = [pc EXCEPT ![t] = Granted(pc[t])]
            /\ xl' = [xl EXCEPT ![t] = TRUE]
            /\ lastx' = t
       ELSE UNCHANGED <<wActive, pc, xl, lastx>>
  /\ UNCHANGED <<rheld, rblocked>>

\* m.mu.Lock(): takes rw.w, announces the writer, and enters when no reader
\* is left; otherwise it sleeps until the last of them leaves.
Lock(t) ==
  /\ w = None
  /\ w' = t
  /\ IF Readers(rheld) = 0
       THEN /\ wActive' = TRUE
            /\ pc' = [pc EXCEPT ![t] = Granted(pc[t])]
            /\ xl' = [xl EXCEPT ![t] = TRUE]
            /\ lastx' = t
       ELSE UNCHANGED <<wActive, pc, xl, lastx>>
  /\ UNCHANGED <<rheld, rblocked>>

\* m.mu.Unlock(): lets in the readers that slept behind the writer.
Unlock(t, next) ==
  /\ w' = None
  /\ wActive' = FALSE
  /\ rheld' = [u \in Threads |-> IF u \in rblocked THEN rheld[u] + 1 ELSE rheld[u]]
  /\ rblocked' = {}
  /\ pc' = [u \in Threads |->
              IF u = t THEN next
              ELSE IF u \in rblocked THEN Granted(pc[u]) ELSE pc[u]]
  /\ UNCHANGED <<xl, lastx>>

\* ------------------------------------------------------ calls and returns
\* The method whose body the goroutine is in: the callback's, inside Range.
Cur(t) == IF cb[t] # "none" THEN cb[t] ELSE op[t]
\* Where the innermost method returns to: the user, or the for-range loop.
Ret(t) == IF cb[t] # "none" THEN "range24" ELSE "idle"

R(st, v, b, n, s) == [st |-> st, v |-> v, b |-> b, n |-> n, s |-> s]
NoRet == R("none", Nil, FALSE, 0, <<>>)

\* The innermost method returns r: to the user, who keeps it, or to the
\* callback, which drops it.
Return(t, r) ==
  /\ ret' = [ret EXCEPT ![t] = IF cb[t] # "none" THEN @ ELSE r]
  /\ cb' = [cb EXCEPT ![t] = "none"]
  /\ value' = [value EXCEPT ![t] = Nil]
  /\ found' = [found EXCEPT ![t] = FALSE]
  /\ size' = [size EXCEPT ![t] = 0]
  /\ result' = [result EXCEPT ![t] = <<>>]

Entry(o) ==
  CASE o = "Get" -> "get55"
    [] o = "Contains" -> "get55"
    [] o = "Put" -> "put69"
    [] o = "ComputeIfAbsent" -> "get55"
    [] o = "Remove" -> "get55"
    [] o = "Size" -> "size97"
    [] o = "Keys" -> "keys45"
    [] o = "Values" -> "values34"
    [] o = "Range" -> "range22"
    [] o = "Clear" -> "clear105"

\* A goroutine that is in no call calls method o with key k and value v
\* (Nil where the method has no such parameter); it makes at most `budget`
\* calls.
Call(t, o, k, v, budget) ==
  /\ pc[t] = "idle"
  /\ cnt[t] < budget
  /\ cnt' = [cnt EXCEPT ![t] = @ + 1]
  /\ pc' = [pc EXCEPT ![t] = Entry(o)]
  /\ op' = [op EXCEPT ![t] = o]
  /\ key' = [key EXCEPT ![t] = k]
  /\ val' = [val EXCEPT ![t] = v]
  /\ ret' = [ret EXCEPT ![t] = NoRet]
  /\ ncomp' = [ncomp EXCEPT ![t] = 0]
  /\ chk' = [chk EXCEPT ![t] = FALSE]
  /\ wr' = [wr EXCEPT ![t] = FALSE]
  /\ xl' = [xl EXCEPT ![t] = FALSE]
  /\ visited' = [visited EXCEPT ![t] = {}]
  /\ pre' = [pre EXCEPT ![t] = items]
  /\ prev' = [prev EXCEPT ![t] = [op |-> op[t], key |-> key[t], val |-> val[t],
                                  ret |-> ret[t]]]
  /\ UNCHANGED <<items, lockv, cb, value, found, size, result, lastx, hist, items0>>

\* ------------------------------------------------------------------- Get
\* A Get that takes the lock in exclusive mode: m.mu.Lock() at line 55.
GetRLockExclusive(t) ==
  /\ pc[t] = "get55"
  /\ Lock(t)
  /\ UNCHANGED <<items, op, cb, locals, ret, cnt, ghosts>>

\* line 55
GetRLock(t) ==
  /\ pc[t] = "get55"
  /\ RLock(t)
  /\ UNCHANGED <<items, op, cb, locals, ret, cnt, ghosts>>

\* A Get that drops the ok of the lookup at line 56 and reports found.
GetReadAlwaysFound(t) ==
  /\ pc[t] = "get56"
  /\ value' = [value EXCEPT ![t] = Lookup(items, key[t])]
  /\ found' = [found EXCEPT ![t] = TRUE]
  /\ chk' = [chk EXCEPT ![t] = Present(items, key[t])]
  /\ pc' = [pc EXCEPT ![t] = "get57"]
  /\ UNCHANGED <<items, lockv, op, cb, key, val, size, visited, result, ret, cnt,
                 ncomp, wr, xl, lastx, hist, items0, pre, prev>>

\* line 56
GetRead(t) ==
  /\ pc[t] = "get56"
  /\ value' = [value EXCEPT ![t] = Lookup(items, key[t])]
  /\ found' = [found EXCEPT ![t] = Present(items, key[t])]
  /\ chk' = [chk EXCEPT ![t] = Present(items, key[t])]
  /\ pc' = [pc EXCEPT ![t] = "get57"]
  /\ UNCHANGED <<items, lockv, op, cb, key, val, size, visited, result, ret, cnt,
                 ncomp, wr, xl, lastx, hist, items0, pre, prev>>

\* A Remove that goes on to line 88 whatever m.Get found.
AfterGetRemoveAlways(t) ==
  CASE Cur(t) = "ComputeIfAbsent" /\ ~found[t] -> "cia79"
    [] Cur(t) = "Remove" -> "remove88"
    [] OTHER -> Ret(t)

\* A ComputeIfAbsent that computes and stores whatever m.Get found.
AfterGetComputeAlways(t) ==
  CASE Cur(t) = "ComputeIfAbsent" -> "cia79"
    [] Cur(t) = "Remove" /\ found[t] -> "remove88"
    [] OTHER -> Ret(t)

\* Where m.Get returns to, by its caller: Get and Contains (line 64) return;
\* ComputeIfAbsent (line 78) and Remove (line 87) go on unless they return.
AfterGet(t) ==
  CASE Cur(t) = "ComputeIfAbsent" /\ ~found[t] -> "cia79"
    [] Cur(t) = "Remove" /\ found[t] -> "remove88"
    [] OTHER -> Ret(t)

\* A ComputeIfAbsent that reports computed = true for the key it found.
GetResultComputedOnHit(t) ==
  CASE Cur(t) = "Get" -> R("ok", value[t], found[t], 0, <<>>)
    [] Cur(t) = "Contains" -> R("ok", Nil, found[t], 0, <<>>)
    [] Cur(t) = "ComputeIfAbsent" -> R("ok", value[t], found[t], 0, <<>>)
    [] OTHER -> R("ok", Nil, found[t], 0, <<>>)

\* What the caller of m.Get returns when it returns right after it.
GetResult(t) ==
  CASE Cur(t) = "Get" -> R("ok", value[t], found[t], 0, <<>>)
    [] Cur(t) = "Contains" -> R("ok", Nil, found[t], 0, <<>>)
    [] Cur(t) = "ComputeIfAbsent" -> R("ok", value[t], ~found[t], 0, <<>>)
    [] OTHER -> R("ok", Nil, found[t], 0, <<>>)

\* A ComputeIfAbsent that keeps the shared lock of its m.Get while it
\* computes the value of an absent key.
GetRUnlockNotOnMiss(t) ==
  /\ pc[t] = "get57"
  /\ IF AfterGet(t) = "cia79"
       THEN /\ pc' = [pc EXCEPT ![t] = "cia79"]
            /\ UNCHANGED <<lockv, xl, lastx, ret, cb, value, found, size, result>>
       ELSE /\ RUnlock(t, AfterGet(t))
            /\ IF AfterGet(t) = Ret(t)
                 THEN Return(t, GetResult(t))
                 ELSE UNCHANGED <<ret, cb, value, found, size, result>>
  /\ UNCHANGED <<items, op, key, val, visited, cnt, ghosts>>

\* lines 57-58, and the caller's lines 63-64, 77-78 and 82, 87 and 92
GetRUnlock(t) ==
  /\ pc[t] = "get57"
  /\ RUnlock(t, AfterGet(t))
  /\ IF AfterGet(t) = Ret(t)
       THEN Return(t, GetResult(t))
       ELSE UNCHANGED <<ret, cb, value, found, size, result>>
  /\ UNCHANGED <<items, op, key, val, visited, cnt, ghosts>>

\* ------------------------------------------------------------------- Put
\* A Put that takes the lock in shared mode at line 69.
PutLockShared(t) ==
  /\ pc[t] = "put69"
  /\ RLock(t)
  /\ UNCHANGED <<items, op, cb, locals, ret, cnt, ghosts>>

\* line 69
PutLock(t) ==
  /\ pc[t] = "put69"
  /\ Lock(t)
  /\ UNCHANGED <<items, op, cb, locals, ret, cnt, ghosts>>

\* A Put that keeps at line 70 the value a present key has.
PutStoreKeepsPresent(t) ==
  /\ pc[t] = "put70"
  /\ items' = StoreIfAbsent(items, key[t], val[t])
  /\ hist' = [hist EXCEPT ![key[t]] = [how |-> "put", v |-> val[t]]]
  /\ wr' = [wr EXCEPT ![t] = TRUE]
  /\ pc' = [pc EXCEPT ![t] = "put71"]
  /\ UNCHANGED <<lockv, op, cb, locals, ret, cnt, ncomp, chk, xl, lastx, items0, pre, prev>>

\* line 70
PutStore(t) ==
  /\ pc[t] = "put70"
  /\ items' = Store(items, key[t], val[t])
  /\ hist' = [hist EXCEPT ![key[t]] = [how |-> "put", v |-> val[t]]]
  /\ wr' = [wr EXCEPT ![t] = TRUE]
  /\ pc' = [pc EXCEPT ![t] = "put71"]
  /\ UNCHANGED <<lockv, op, cb, locals, ret, cnt, ncomp, chk, xl, lastx, items0, pre, prev>>

\* A Put that returns the value the key had before, not the one stored.
PutUnlockReturnsOld(t) ==
  /\ pc[t] = "put71"
  /\ Unlock(t, Ret(t))
  /\ Return(t, R("ok", Lookup(pre[t], key[t]),
                 Cur(t) = "ComputeIfAbsent" /\ ~found[t], 0, <<>>))
  /\ UNCHANGED <<items, op, key, val, visited, cnt, ghosts>>

\* lines 71-72, and ComputeIfAbsent's lines 79 and 82
PutUnlock(t) ==
  /\ pc[t] = "put71"
  /\ Unlock(t, Ret(t))
  /\ Return(t, R("ok", val[t], Cur(t) = "ComputeIfAbsent" /\ ~found[t], 0, <<>>))
  /\ UNCHANGED <<items, op, key, val, visited, cnt, ghosts>>

\* ------------------------------------------------------- ComputeIfAbsent
\* line 79: compFunction(key) returns a value of VS, the argument of m.Put
CiaCompute(t, VS) ==
  /\ pc[t] = "cia79"
  /\ \E v \in VS : val' = [val EXCEPT ![t] = v]
  /\ ncomp' = [ncomp EXCEPT ![t] = @ + 1]
  /\ pc' = [pc EXCEPT ![t] = "put69"]
  /\ UNCHANGED <<items, lockv, op, cb, key, value, found, size, visited, result,
                 ret, cnt, chk, wr, xl, lastx, hist, items0, pre, prev>>

\* line 79: compFunction(key) panics; the panic leaves ComputeIfAbsent, which
\* has no deferred call, and reaches the caller
CiaComputeFails(t) ==
  /\ pc[t] = "cia79"
  /\ ncomp' = [ncomp EXCEPT ![t] = @ + 1]
  /\ pc' = [pc EXCEPT ![t] = Ret(t)]
  /\ Return(t, R("panic", Nil, FALSE, 0, <<>>))
  /\ UNCHANGED <<items, lockv, op, key, val, visited, cnt, chk, wr, xl, lastx,
                 hist, items0, pre, prev>>

\* ---------------------------------------------------------------- Remove
\* line 88
RemoveLock(t) ==
  /\ pc[t] = "remove88"
  /\ Lock(t)
  /\ UNCHANGED <<items, op, cb, locals, ret, cnt, ghosts>>

\* A Remove that tests the key again under the exclusive lock, at line 89,
\* and returns that.
RemoveDeleteRechecks(t) ==
  /\ pc[t] = "remove89"
  /\ found' = [found EXCEPT ![t] = Present(items, key[t])]
  /\ items' = Delete(items, key[t])
  /\ hist' = [hist EXCEPT ![key[t]] = [how |-> "removed", v |-> Nil]]
  /\ wr' = [wr EXCEPT ![t] = TRUE]
  /\ pc' = [pc EXCEPT ![t] = "remove92"]
  /\ UNCHANGED <<lockv, op, cb, key, val, value, size, visited, result, ret, cnt,
                 ncomp, chk, xl, lastx, items0, pre, prev>>

\* line 89
RemoveDelete(t) ==
  /\ pc[t] = "remove89"
  /\ items' = Delete(items, key[t])
  /\ hist' = [hist EXCEPT ![key[t]] = [how |-> "removed", v |-> Nil]]
  /\ wr' = [wr EXCEPT ![t] = TRUE]
  /\ pc' = [pc EXCEPT ![t] = "remove92"]
  /\ UNCHANGED <<lockv, op, cb, locals, ret, cnt, ncomp, chk, xl, lastx, items0, pre, prev>>

\* line 92: the return runs the Unlock deferred at line 90
RemoveUnlock(t) ==
  /\ pc[t] = "remove92"
  /\ Unlock(t, Ret(t))
  /\ Return(t, R("ok", Nil, found[t], 0, <<>>))
  /\ UNCHANGED <<items, op, key, val, visited, cnt, ghosts>>

\* ------------------------------------------------------------------ Size
\* line 97
SizeRLock(t) ==
  /\ pc[t] = "size97"
  /\ RLock(t)
  /\ UNCHANGED <<items, op, cb, locals, ret, cnt, ghosts>>

\* line 98
SizeRead(t) ==
  /\ pc[t] = "size98"
  /\ size' = [size EXCEPT ![t] = MapLen(items)]
  /\ pc' = [pc EXCEPT ![t] = "size99"]
  /\ UNCHANGED <<items, lockv, op, cb, key, val, value, found, visited, result,
                 ret, cnt, ghosts, xl, lastx>>

\* lines 99-100
SizeRUnlock(t) ==
  /\ pc[t] = "size99"
  /\ RUnlock(t, Ret(t))
  /\ Return(t, R("ok", Nil, FALSE, size[t], <<>>))
  /\ UNCHANGED <<items, op, key, val, visited, cnt, ghosts>>

\* ----------------------------------------------------------------- Clear
\* line 105
ClearLock(t) ==
  /\ pc[t] = "clear105"
  /\ Lock(t)
  /\ UNCHANGED <<items, op, cb, locals, ret, cnt, ghosts>>

\* A Clear that takes out one entry and keeps the others.
ClearResetDropsOne(t) ==
  /\ pc[t] = "clear106"
  /\ LET gone == IF items = EmptyMap THEN {} ELSE {CHOOSE k \in DOMAIN items : TRUE}
     IN /\ items' = [k \in DOMAIN items \ gone |-> items[k]]
        /\ hist' = [k \in Keys |-> IF k \in gone
                                    THEN [how |-> "cleared", v |-> Nil] ELSE hist[k]]
  /\ wr' = [wr EXCEPT ![t] = TRUE]
  /\ pc' = [pc EXCEPT ![t] = "clear108"]
  /\ UNCHANGED <<lockv, op, cb, locals, ret, cnt, ncomp, chk, xl, lastx, items0, pre, prev>>

\* lines 106-107: nil, then a fresh map; no goroutine runs between the two
\* assignments that could tell them apart
ClearReset(t) ==
  /\ pc[t] = "clear106"
  /\ items' = EmptyMap
  /\ hist' = [k \in Keys |-> IF Present(items, k)
                              THEN [how |-> "cleared", v |-> Nil] ELSE hist[k]]
  /\ wr' = [wr EXCEPT ![t] = TRUE]
  /\ pc' = [pc EXCEPT ![t] = "clear108"]
  /\ UNCHANGED <<lockv, op, cb, locals, ret, cnt, ncomp, chk, xl, lastx, items0, pre, prev>>

\* A Clear that returns without Unlock.
ClearUnlockForgotten(t) ==
  /\ pc[t] = "clear108"
  /\ pc' = [pc EXCEPT ![t] = Ret(t)]
  /\ Return(t, R("ok", Nil, FALSE, 0, <<>>))
  /\ UNCHANGED <<items, lockv, xl, lastx, op, key, val, visited, cnt, ghosts>>

\* lines 108-109
ClearUnlock(t) ==
  /\ pc[t] = "clear108"
  /\ Unlock(t, Ret(t))
  /\ Return(t, R("ok", Nil, FALSE, 0, <<>>))
  /\ UNCHANGED <<items, op, key, val, visited, cnt, ghosts>>

\* ------------------------------------------------------- Keys and Values
\* The entries a for-range loop over m.items has still to produce; their
\* order is not specified.
Remaining(t) == DOMAIN items \ visited[t]

\* line 45
KeysRLock(t) ==
  /\ pc[t] = "keys45"
  /\ RLock(t)
  /\ UNCHANGED <<items, op, cb, locals, ret, cnt, ghosts>>

\* lines 46-47: one iteration
KeysAppend(t) ==
  /\ pc[t] = "keys46"
  /\ \E k \in Remaining(t) :
       /\ result' = [result EXCEPT ![t] = Append(@, k)]
       /\ visited' = [visited EXCEPT ![t] = @ \cup {k}]
  /\ UNCHANGED <<items, lockv, pc, op, cb, key, val, value, found, size, ret, cnt,
                 ghosts, xl, lastx>>

\* lines 49-50, when the loop has ended
KeysRUnlock(t) ==
  /\ pc[t] = "keys46"
  /\ Remaining(t) = {}
  /\ RUnlock(t, Ret(t))
  /\ Return(t, R("ok", Nil, FALSE, 0, result[t]))
  /\ visited' = [visited EXCEPT ![t] = {}]
  /\ UNCHANGED <<items, op, key, val, cnt, ghosts>>

\* line 34
ValuesRLock(t) ==
  /\ pc[t] = "values34"
  /\ RLock(t)
  /\ UNCHANGED <<items, op, cb, locals, ret, cnt, ghosts>>

\* A Values whose loop variable is the key: for value := range m.items.
ValuesAppendKey(t) ==
  /\ pc[t] = "values35"
  /\ \E k \in Remaining(t) :
       /\ result' = [result EXCEPT ![t] = Append(@, k)]
       /\ visited' = [visited EXCEPT ![t] = @ \cup {k}]
  /\ UNCHANGED <<items, lockv, pc, op, cb, key, val, value, found, size, ret, cnt,
                 ghosts, xl, lastx>>

\* lines 35-36: one iteration
ValuesAppend(t) ==
  /\ pc[t] = "values35"
  /\ \E k \in Remaining(t) :
       /\ result' = [result EXCEPT ![t] = Append(@, items[k])]
       /\ visited' = [visited EXCEPT ![t] = @ \cup {k}]
  /\ UNCHANGED <<items, lockv, pc, op, cb, key, val, value, found, size, ret, cnt,
                 ghosts, xl, lastx>>

\* lines 38-39, when the loop has ended
ValuesRUnlock(t) ==
  /\ pc[t] = "values35"
  /\ Remaining(t) = {}
  /\ RUnlock(t, Ret(t))
  /\ Return(t, R("ok", Nil, FALSE, 0, result[t]))
  /\ visited' = [visited EXCEPT ![t] = {}]
  /\ UNCHANGED <<items, op, key, val, cnt, ghosts>>

\* ----------------------------------------------------------------- Range
\* line 22
RangeRLock(t) ==
  /\ pc[t] = "range22"
  /\ RLock(t)
  /\ UNCHANGED <<items, op, cb, locals, ret, cnt, ghosts>>

\* A Range that takes each entry it visits out of the map.
RangeVisitDrains(t) ==
  /\ pc[t] = "range23"
  /\ \E k \in Remaining(t) :
       /\ result' = [result EXCEPT ![t] = Append(@, k)]
       /\ visited' = [visited EXCEPT ![t] = @ \cup {k}]
       /\ items' = Delete(items, k)
  /\ \E b \in BOOLEAN : pc' = [pc EXCEPT ![t] = IF b THEN "range23" ELSE "range28"]
  /\ UNCHANGED <<lockv, op, cb, key, val, value, found, size, ret, cnt,
                 ghosts, xl, lastx>>

\* lines 23-25: one iteration whose action(key, value) does not call the map
\* and returns true (go on) or false (break).  result records the keys
\* handed to action.
RangeVisit(t) ==
  /\ pc[t] = "range23"
  /\ \E k \in Remaining(t) :
       /\ result' = [result EXCEPT ![t] = Append(@, k)]
       /\ visited' = [visited EXCEPT ![t] = @ \cup {k}]
  /\ \E b \in BOOLEAN : pc' = [pc EXCEPT ![t] = IF b THEN "range23" ELSE "range28"]
  /\ UNCHANGED <<items, lockv, op, cb, key, val, value, found, size, ret, cnt,
                 ghosts, xl, lastx>>

\* The methods an action passed to Range may call on the same map.
CallbackOps == {"Get", "Contains", "Size", "Put", "Remove"}

\* lines 23-24: one iteration whose action calls method c of the same map
RangeVisitCalls(t) ==
  /\ pc[t] = "range23"
  /\ \E k \in Remaining(t) :
       /\ result' = [result EXCEPT ![t] = Append(@, k)]
       /\ visited' = [visited EXCEPT ![t] = @ \cup {k}]
  /\ \E c \in CallbackOps, k2 \in Keys, v \in Vals :
       /\ cb' = [cb EXCEPT ![t] = c]
       /\ key' = [key EXCEPT ![t] = IF c = "Size" THEN Nil ELSE k2]
       /\ val' = [val EXCEPT ![t] = IF c = "Put" THEN v ELSE Nil]
       /\ pc' = [pc EXCEPT ![t] = Entry(c)]
  /\ UNCHANGED <<items, lockv, op, value, found, size, ret, cnt, ghosts, xl, lastx>>

\* The methods an action may call that only read the map.
ReadCallbackOps == {"Get", "Contains", "Size"}

\* lines 23-24: one iteration whose action calls a reading method of the
\* same map
RangeVisitReads(t) ==
  /\ pc[t] = "range23"
  /\ \E k \in Remaining(t) :
       /\ result' = [result EXCEPT ![t] = Append(@, k)]
       /\ visited' = [visited EXCEPT ![t] = @ \cup {k}]
  /\ \E c \in ReadCallbackOps, k2 \in Keys :
       /\ cb' = [cb EXCEPT ![t] = c]
       /\ key' = [key EXCEPT ![t] = IF c = "Size" THEN Nil ELSE k2]
       /\ val' = [val EXCEPT ![t] = Nil]
       /\ pc' = [pc EXCEPT ![t] = Entry(c)]
  /\ UNCHANGED <<items, lockv, op, value, found, size, ret, cnt, ghosts, xl, lastx>>

\* lines 24-25: the method the action called has returned, and the action
\* returns true or false
RangeResume(t) ==
  /\ pc[t] = "range24"
  /\ \E b \in BOOLEAN : pc' = [pc EXCEPT ![t] = IF b THEN "range23" ELSE "range28"]
  /\ UNCHANGED <<items, lockv, op, cb, locals, ret, cnt, ghosts, xl, lastx>>

\* line 24: action panics; Range has deferred nothing, so the panic leaves
\* it without reaching line 28
RangeVisitPanics(t) ==
  /\ pc[t] = "range23"
  /\ Remaining(t) # {}
  /\ pc' = [pc EXCEPT ![t] = "idle"]
  /\ Return(t, R("panic", Nil, FALSE, 0, result[t]))
  /\ visited' = [visited EXCEPT ![t] = {}]
  /\ UNCHANGED <<items, lockv, op, key, val, cnt, ghosts, xl, lastx>>

\* A Range that leaves the loop by return instead of break.
RangeRUnlockNotOnBreak(t) ==
  /\ \/ pc[t] = "range23" /\ Remaining(t) = {}
     \/ pc[t] = "range28"
  /\ IF pc[t] = "range28"
       THEN /\ pc' = [pc EXCEPT ![t] = Ret(t)]
            /\ UNCHANGED <<lockv, xl, lastx>>
       ELSE RUnlock(t, Ret(t))
  /\ Return(t, R("ok", Nil, FALSE, 0, result[t]))
  /\ visited' = [visited EXCEPT ![t] = {}]
  /\ UNCHANGED <<items, op, key, val, cnt, ghosts>>

\* lines 28-29, after the loop has ended or was left by break
RangeRUnlock(t) ==
  /\ \/ pc[t] = "range23" /\ Remaining(t) = {}
     \/ pc[t] = "range28"
  /\ RUnlock(t, Ret(t))
  /\ Return(t, R("ok", Nil, FALSE, 0, result[t]))
  /\ visited' = [visited EXCEPT ![t] = {}]
  /\ UNCHANGED <<items, op, key, val, cnt, ghosts>>

\* ------------------------------------------------------------ the program
\* No goroutine is in a call, the lock is free, and m.items is m0: what New()
\* (line 17) and a number of Put calls by one goroutine have built.
Start(m0) ==
  /\ items = m0
  /\ items0 = m0
  /\ hist = [k \in Keys |-> IF Present(m0, k) THEN [how |-> "put", v |-> m0[k]]
                            ELSE [how |-> "never", v |-> Nil]]
  /\ rheld = [t \in Threads |-> 0]
  /\ rblocked = {}
  /\ w = None
  /\ wActive = FALSE
  /\ pc = [t \in Threads |-> "idle"]
  /\ op = [t \in Threads |-> "none"]
  /\ cb = [t \in Threads |-> "none"]
  /\ key = [t \in Threads |-> Nil]
  /\ val = [t \in Threads |-> Nil]
  /\ value = [t \in Threads |-> Nil]
  /\ found = [t \in Threads |-> FALSE]
  /\ size = [t \in Threads |-> 0]
  /\ visited = [t \in Threads |-> {}]
  /\ result = [t \in Threads |-> <<>>]
  /\ ret = [t \in Threads |-> NoRet]
  /\ cnt = [t \in Threads |-> 0]
  /\ ncomp = [t \in Threads |-> 0]
  /\ chk = [t \in Threads |-> FALSE]
  /\ wr = [t \in Threads |-> FALSE]
  /\ xl = [t \in Threads |-> FALSE]
  /\ lastx = None
  /\ pre = [t \in Threads |-> m0]
  /\ prev = [t \in Threads |-> [op |-> "none", key |-> Nil, val |-> Nil, ret |-> NoRet]]

Init == \E m0 \in Maps : Start(m0)

\* The calls a user goroutine makes.
CallGet(t, B) == \E k \in Keys : Call(t, "Get", k, Nil, B)
CallContains(t, B) == \E k \in Keys : Call(t, "Contains", k, Nil, B)
CallPut(t, B) == \E k \in Keys, v \in Vals : Call(t, "Put", k, v, B)
CallComputeIfAbsent(t, B) == \E k \in Keys : Call(t, "ComputeIfAbsent", k, Nil, B)
CallRemove(t, B) == \E k \in Keys : Call(t, "Remove", k, Nil, B)
CallSize(t, B) == Call(t, "Size", Nil, Nil, B)
CallKeys(t, B) == Call(t, "Keys", Nil, Nil, B)
CallValues(t, B) == Call(t, "Values", Nil, Nil, B)
CallRange(t, B) == Call(t, "Range", Nil, Nil, B)
CallClear(t, B) == Call(t, "Clear", Nil, Nil, B)

AnyCall(t, B) ==
  \/ CallGet(t, B) \/ CallContains(t, B) \/ CallPut(t, B)
  \/ CallComputeIfAbsent(t, B) \/ CallRemove(t, B)
  \/ CallSize(t, B) \/ CallKeys(t, B) \/ CallValues(t, B)
  \/ CallRange(t, B) \/ CallClear(t, B)

\* The steps of the ten methods, with a compFunction that may panic and an
\* action passed to Range that neither panics nor calls the map.
Step(t) ==
  \/ GetRLock(t) \/ GetRead(t) \/ GetRUnlock(t)
  \/ PutLock(t) \/ PutStore(t) \/ PutUnlock(t)
  \/ CiaCompute(t, Vals) \/ CiaComputeFails(t)
  \/ RemoveLock(t) \/ RemoveDelete(t) \/ RemoveUnlock(t)
  \/ SizeRLock(t) \/ SizeRead(t) \/ SizeRUnlock(t)
  \/ ClearLock(t) \/ ClearReset(t) \/ ClearUnlock(t)
  \/ KeysRLock(t) \/ KeysAppend(t) \/ KeysRUnlock(t)
  \/ ValuesRLock(t) \/ ValuesAppend(t) \/ ValuesRUnlock(t)
  \/ RangeRLock(t) \/ RangeVisit(t) \/ RangeRUnlock(t)

\* Any number of goroutines call the ten methods.
Next == \E t \in Users : AnyCall(t, MaxOps) \/ Step(t)

Spec == Init /\ [][Next]_vars

\* The same goroutines under the Go scheduler, which runs every goroutine
\* that can run: a goroutine inside a method takes its next step unless it
\* sleeps in RLock or Lock; compFunction and action return.
SpecFair == Init /\ [][Next]_vars /\ \A t \in Users : WF_vars(Step(t))

\* One goroutine calls the ten methods, one call after the other.
Solo == CHOOSE t \in Threads : \A u \in Threads : t <= u
SeqNext == AnyCall(Solo, MaxSeqOps) \/ Step(Solo)

SpecSeq == Init /\ [][SeqNext]_vars

\* The racers: each calls Put(SharedKey, its id), ComputeIfAbsent(SharedKey, f)
\* with an f that returns its id, or Remove(SharedKey), once.
SharedKey == CHOOSE k \in Keys : \A k2 \in Keys : k <= k2
\* What SharedKey holds at the start, if anything: no racer's id.
StartVal == NRacers + 1
RacePut(t) == Call(t, "Put", SharedKey, t, 1)
RaceComputeIfAbsent(t) == Call(t, "ComputeIfAbsent", SharedKey, Nil, 1)
RaceRemove(t) == Call(t, "Remove", SharedKey, Nil, 1)

RaceInit == \E m0 \in MapsOver({SharedKey}, {StartVal}) : Start(m0)

RaceNext ==
  \E t \in Threads :
    \/ RacePut(t) \/ RaceComputeIfAbsent(t) \/ RaceRemove(t)
    \/ GetRLock(t) \/ GetRead(t) \/ GetRUnlock(t)
    \/ PutLock(t) \/ PutStore(t) \/ PutUnlock(t)
    \/ CiaCompute(t, {t})
    \/ RemoveLock(t) \/ RemoveDelete(t) \/ RemoveUnlock(t)

SpecRace == RaceInit /\ [][RaceNext]_vars

\* One goroutine runs Range over a populated map, with an action that does
\* not call the map, while the others call Get and Size.
Ranger == CHOOSE t \in Threads : \A u \in Threads : t <= u
ReadersInit == \E m0 \in Maps \ {EmptyMap} : Start(m0)

ReadersStep(t) ==
  \/ RangeRLock(t) \/ RangeVisit(t) \/ RangeRUnlock(t)
  \/ GetRLock(t) \/ GetRead(t) \/ GetRUnlock(t)
  \/ SizeRLock(t) \/ SizeRead(t) \/ SizeRUnlock(t)

ReadersNext ==
  \/ CallRange(Ranger, MaxOps)
  \/ \E t \in Threads \ {Ranger} : CallGet(t, MaxOps) \/ CallSize(t, MaxOps)
  \/ \E t \in Threads : ReadersStep(t)

\* The Go scheduler runs every goroutine that can run, and an action that is
\* called returns.
SpecReaders ==
  /\ ReadersInit /\ [][ReadersNext]_vars
  /\ \A t \in Threads : WF_vars(ReadersStep(t))

\* Goroutines call Range with an action that may call Get, Contains, Size,
\* Put or Remove on the same map, while others call Put, Remove and Clear.
ReentNext ==
  \E t \in Users :
    \/ CallRange(t, MaxOps) \/ CallPut(t, MaxOps) \/ CallRemove(t, MaxOps)
    \/ CallClear(t, MaxOps)
    \/ RangeRLock(t) \/ RangeVisitCalls(t) \/ RangeResume(t) \/ RangeRUnlock(t)
    \/ GetRLock(t) \/ GetRead(t) \/ GetRUnlock(t)
    \/ SizeRLock(t) \/ SizeRead(t) \/ SizeRUnlock(t)
    \/ PutLock(t) \/ PutStore(t) \/ PutUnlock(t)
    \/ RemoveLock(t) \/ RemoveDelete(t) \/ RemoveUnlock(t)
    \/ ClearLock(t) \/ ClearReset(t) \/ ClearUnlock(t)

SpecReent == Init /\ [][ReentNext]_vars

\* Goroutines call Range with an action that calls Get, Contains or Size on
\* the same map, while others call Put, Remove and Clear.
ReadReentStep(t) ==
  \/ RangeRLock(t) \/ RangeVisitReads(t) \/ RangeResume(t) \/ RangeRUnlock(t)
  \/ GetRLock(t) \/ GetRead(t) \/ GetRUnlock(t)
  \/ SizeRLock(t) \/ SizeRead(t) \/ SizeRUnlock(t)
  \/ PutLock(t) \/ PutStore(t) \/ PutUnlock(t)
  \/ RemoveLock(t) \/ RemoveDelete(t) \/ RemoveUnlock(t)
  \/ ClearLock(t) \/ ClearReset(t) \/ ClearUnlock(t)

ReadReentNext ==
  \E t \in Users :
    \/ CallRange(t, MaxOps) \/ CallPut(t, MaxOps) \/ CallRemove(t, MaxOps)
    \/ CallClear(t, MaxOps)
    \/ ReadReentStep(t)

\* The Go scheduler runs every goroutine that can run, and the action
\* returns once the method it called has returned.
SpecReadReent ==
  /\ Init /\ [][ReadReentNext]_vars
  /\ \A t \in Users : WF_vars(ReadReentStep(t))

\* Any number of goroutines call the ten methods, with an action passed to
\* Range that may panic; the caller of Range recovers and goes on.
PanicNext == Next \/ \E t \in Users : RangeVisitPanics(t)

SpecPanic == Init /\ [][PanicNext]_vars

\* ------------------------------------------------------------ properties
\* Positions between an RLock and its RUnlock, and between a Lock and its
\* Unlock; m.items is read only at the first and written only at the second.
ReadPcs == {"get56", "get57", "size98", "size99", "keys46", "values35",
            "range23", "range24", "range28"}
WritePcs == {"put70", "put71", "remove89", "remove92", "clear106", "clear108"}
InShared(t) == pc[t] \in ReadPcs
InExclusive(t) == pc[t] \in WritePcs
Idle(t) == pc[t] = "idle"
\* t has finished a call of method o.
Did(t, o) == Idle(t) /\ op[t] = o /\ ret[t].st = "ok"

\* C1: at most one goroutine is in an exclusive critical section, and while
\* one is, no other goroutine is in a shared or an exclusive one; a goroutine
\* at a position that reads m.items holds the lock in shared mode, one at a
\* position that writes m.items holds it in exclusive mode.
C1_MutualExclusion ==
  /\ Cardinality({t \in Threads : InExclusive(t)}) <= 1
  /\ \A t \in Threads : InExclusive(t) =>
       /\ w = t /\ wActive /\ Readers(rheld) = 0
       /\ \A u \in Threads \ {t} : ~InShared(u) /\ ~InExclusive(u)
  /\ \A t \in Threads : InShared(t) => rheld[t] > 0 /\ ~(w # None /\ wActive)

\* C1 witness: a writer is in its critical section while a reader sleeps in
\* RLock behind it.
C1_Witness ==
  \E t, u \in Threads : InExclusive(t) /\ u \in rblocked /\ pc[u] = "get55"

\* The racers all called method o, none is still in its call, and at least
\* two of them did call.
RaceOf(o) ==
  /\ \A t \in Threads : Idle(t) /\ (cnt[t] = 0 \/ op[t] = o)
  /\ Cardinality({t \in Threads : cnt[t] = 1}) >= 2

\* C2: when ComputeIfAbsent(SharedKey, f) calls of several goroutines on the
\* absent SharedKey have all finished, the map holds for SharedKey the value
\* stored by the Put that took the exclusive lock last, a value that its
\* caller computed and got back with computed = true.
C2_LastPutWins ==
  (RaceOf("ComputeIfAbsent") /\ ~Present(items0, SharedKey)) =>
    /\ lastx # None
    /\ Present(items, SharedKey)
    /\ items[SharedKey] = ret[lastx].v
    /\ ret[lastx].b /\ ncomp[lastx] = 1

\* C2 witness: all the ComputeIfAbsent calls on the absent SharedKey have
\* finished, f was invoked more than once, and more than one call returned
\* computed = true.
C2_Witness ==
  /\ RaceOf("ComputeIfAbsent") /\ ~Present(items0, SharedKey)
  /\ Cardinality({t \in Threads : ncomp[t] = 1}) > 1
  /\ Cardinality({t \in Threads : ret[t].st = "ok" /\ ret[t].b}) > 1

\* C3: Remove returns what its own m.Get read, whatever happened to the key
\* afterwards, and a delete of a key that is no longer present leaves
\* m.items as it is.
C3_RemoveReturnsItsCheck ==
  /\ [](\A t \in Threads : Did(t, "Remove") => ret[t].b = chk[t])
  /\ [][\A t \in Threads :
          (pc[t] = "remove89" /\ pc'[t] = "remove92" /\ ~Present(items, key[t]))
            => items' = items]_vars

\* C3 witness: SharedKey was present, nobody stored it, and two Remove calls
\* have both returned true.
C3_Witness ==
  /\ RaceOf("Remove") /\ Present(items0, SharedKey)
  /\ Cardinality({t \in Threads : Did(t, "Remove") /\ ret[t].b}) >= 2

\* C4: when every racer has called Put(SharedKey, its id) and all have
\* returned, SharedKey is present and holds the id of the racer that took
\* the exclusive lock last.
C4_LastLockerWins ==
  (\A t \in Threads : Did(t, "Put") /\ key[t] = SharedKey /\ val[t] = t) =>
    /\ Present(items, SharedKey)
    /\ Lookup(items, SharedKey) \in Threads
    /\ Lookup(items, SharedKey) = lastx

\* C4 witness: all the Put calls have returned and SharedKey holds the id of
\* a racer that is neither the first nor the last.
C4_Witness ==
  /\ \A t \in Threads : Did(t, "Put") /\ key[t] = SharedKey /\ val[t] = t
  /\ Lookup(items, SharedKey) = 2

\* t's ComputeIfAbsent has been left by the panic of compFunction.
Failed(t) == Idle(t) /\ op[t] = "ComputeIfAbsent" /\ ret[t].st = "panic"

\* C7: a ComputeIfAbsent whose compFunction fails has found the key absent,
\* has written nothing to m.items and has never held the exclusive lock; at
\* the failure it holds no lock and the step changes neither m.items nor the
\* lock; if no other goroutine has called, m.items is what it was at the call
\* and holds no entry for the key.
C7_FailedComputeStoresNothing ==
  /\ [](\A t \in Threads : Failed(t) =>
          /\ ~chk[t] /\ ncomp[t] = 1 /\ ~wr[t] /\ ~xl[t]
          /\ rheld[t] = 0 /\ w # t /\ t \notin rblocked
          /\ (\A u \in Threads \ {t} : cnt[u] = 0) =>
               items = pre[t] /\ ~Present(items, key[t]))
  /\ [][\A t \in Threads : (pc[t] = "cia79" /\ Failed(t)') =>
          /\ rheld[t] = 0 /\ w # t
          /\ items' = items /\ UNCHANGED lockv]_vars

\* C7 witness: one goroutine's compFunction has failed, and another
\* goroutine is in the exclusive critical section.
C7_Witness ==
  \E t, u \in Threads : t # u /\ Failed(t) /\ InExclusive(u)

\* C8: in the state where a goroutine working alone has finished Get(K):
\* found tells whether the last write of K was a store (not when K was never
\* stored, was removed or was cleared), and the value is the one stored; right
\* after Put(K, V) it is (V, true); Contains(K) returns what Get(K) returns
\* as found, before or after it.
C8_GetPutContains ==
  \A t \in Threads :
    /\ Did(t, "Get") =>
         /\ ret[t].b = (hist[key[t]].how = "put")
         /\ ret[t].v = hist[key[t]].v
         /\ (prev[t].op = "Put" /\ prev[t].key = key[t]) =>
              ret[t].b /\ ret[t].v = prev[t].val
         /\ (prev[t].op = "Contains" /\ prev[t].key = key[t]) =>
              ret[t].b = prev[t].ret.b
    /\ Did(t, "Contains") =>
         /\ ret[t].b = (hist[key[t]].how = "put")
         /\ (prev[t].op = "Get" /\ prev[t].key = key[t]) =>
              ret[t].b = prev[t].ret.b

\* C8 witness: Get(K) has returned right after Put(K, V), for a K that was
\* not present at the start.
C8_Witness ==
  /\ Did(Solo, "Get") /\ prev[Solo].op = "Put" /\ prev[Solo].key = key[Solo]
  /\ ~Present(items0, key[Solo]) /\ ret[Solo].b

\* C9: a Put returns the value it was given and leaves it under its key; a
\* Put(K, V2) right after Put(K, V1) found V1 under K and leaves the number
\* of entries as it was; a Get(K) right after a Put(K, V2) returns (V2, true).
C9_PutOverwrites ==
  \A t \in Threads :
    /\ Did(t, "Put") =>
         /\ ret[t].v = val[t]
         /\ Present(items, key[t]) /\ Lookup(items, key[t]) = val[t]
         /\ (prev[t].op = "Put" /\ prev[t].key = key[t]) =>
              /\ prev[t].ret.v = prev[t].val
              /\ Lookup(pre[t], key[t]) = prev[t].val
              /\ MapLen(items) = MapLen(pre[t])
    /\ (Did(t, "Get") /\ prev[t].op = "Put" /\ prev[t].key = key[t]) =>
         /\ ret[t].v = prev[t].val /\ ret[t].b
         /\ MapLen(items) = MapLen(pre[t])

\* C9 witness: Put(K, V2) has returned right after Put(K, V1), V1 # V2.
C9_Witness ==
  /\ Did(Solo, "Put") /\ prev[Solo].op = "Put" /\ prev[Solo].key = key[Solo]
  /\ prev[Solo].val # val[Solo]

\* C10: a Remove(K) by a goroutine working alone returns whether K was
\* present at the call and leaves K absent; on an absent K it takes no
\* exclusive lock and leaves m.items as it was; on a present K it changes
\* nothing but K; a Get(K) right after it returns found = false.
C10_Remove ==
  \A t \in Threads :
    /\ Did(t, "Remove") =>
         /\ ret[t].b = Present(pre[t], key[t])
         /\ ~Present(items, key[t])
         /\ \A k \in Keys \ {key[t]} :
              Present(items, k) = Present(pre[t], k)
                /\ Lookup(items, k) = Lookup(pre[t], k)
         /\ ~Present(pre[t], key[t]) => ~xl[t] /\ ~wr[t] /\ items = pre[t]
    /\ (Did(t, "Get") /\ prev[t].op = "Remove" /\ prev[t].key = key[t]) =>
         ~ret[t].b /\ ret[t].v = Nil

\* C10 witness: Get(K) has returned right after a Remove(K) that returned
\* true.
C10_Witness ==
  /\ Did(Solo, "Get") /\ prev[Solo].op = "Remove" /\ prev[Solo].key = key[Solo]
  /\ prev[Solo].ret.b

\* C5: while one goroutine runs Range over a populated map and the others
\* call Get and Size, m.items stays what it was, some goroutine in a call can
\* always take a step, and every call returns.
C5_ReadersComplete ==
  /\ [](items = items0)
  /\ []((\E t \in Threads : ~Idle(t)) => ENABLED (\E t \in Threads : ReadersStep(t)))
  /\ \A t \in Threads : (~Idle(t)) ~> Idle(t)

\* C5 witness: Range is between two visits while another goroutine is inside
\* Get, and a third inside Size.
C5_Witness ==
  /\ pc[Ranger] = "range23" /\ visited[Ranger] # {} /\ Remaining(Ranger) # {}
  /\ \E t, u \in Threads : pc[t] = "get56" /\ pc[u] = "size98"

\* t is inside the action of its Range, which has called Put, or Remove on a
\* key it found present, and has reached the Lock of it.
Requesting(t) ==
  /\ op[t] = "Range"
  /\ \/ cb[t] = "Put" /\ pc[t] = "put69"
     \/ cb[t] = "Remove" /\ pc[t] = "remove88"

\* C6: a goroutine whose Range action has reached the Lock of Put or Remove
\* holds its shared lock, and no step takes it past that Lock or makes it
\* release the shared lock.
C6_ReentrantWriteDeadlocks ==
  /\ [](\A t \in Threads : Requesting(t) => rheld[t] > 0 /\ ~InExclusive(t))
  /\ [][\A t \in Threads : Requesting(t) =>
          Requesting(t)' /\ rheld'[t] = rheld[t]]_vars

\* C6 witness: a deadlock.  One goroutine waits for its own shared lock in
\* the Lock its Range action called; the other sleeps in RLock behind it; no
\* step is possible.
C6_Witness ==
  /\ \E t, u \in Threads :
       /\ Requesting(t) /\ w = t /\ ~wActive
       /\ u \in rblocked
  /\ ~ENABLED ReentNext

\* C11: a ComputeIfAbsent(K, f) of a goroutine working alone that has
\* returned: if K was absent at the call, f was invoked exactly once, K
\* holds what f returned and nothing else has changed, and the call returned
\* (that value, true); if K was present, f was not invoked, m.items is what
\* it was, and the call returned (the value K had, false).
C11_ComputeIfAbsent ==
  \A t \in Threads : Did(t, "ComputeIfAbsent") =>
    IF Present(pre[t], key[t])
      THEN /\ ncomp[t] = 0
           /\ items = pre[t]
           /\ ~wr[t] /\ ~xl[t]
           /\ ret[t].v = pre[t][key[t]] /\ ~ret[t].b
      ELSE /\ ncomp[t] = 1
           /\ val[t] \in Vals
           /\ items = Store(pre[t], key[t], val[t])
           /\ ret[t].v = val[t] /\ ret[t].b

\* C11 witness: ComputeIfAbsent(K, f) has returned computed = false with the
\* value that the ComputeIfAbsent(K, f) right before it computed and stored.
C11_Witness ==
  /\ Did(Solo, "ComputeIfAbsent") /\ ~ret[Solo].b /\ ncomp[Solo] = 0
  /\ prev[Solo].op = "ComputeIfAbsent" /\ prev[Solo].key = key[Solo]
  /\ prev[Solo].ret.b /\ prev[Solo].ret.v = ret[Solo].v
  /\ ~Present(items0, key[Solo])

\* The keys whose last write was a store: the keys that hold a value.
Stored == {k \in Keys : hist[k].how = "put"}

\* C12: for a goroutine working alone, Size() returns the number of keys
\* whose last write was a store, and each of them holds the one value stored
\* last; a Put or ComputeIfAbsent on an absent key has raised the number of
\* entries by one and one on a present key has left it, a Remove of a
\* present key has lowered it by one and one of an absent key has left it,
\* and a Clear has left none.
C12_SizeCountsKeys ==
  /\ DOMAIN items = Stored
  /\ \A k \in Stored : items[k] = hist[k].v /\ items[k] \in Vals
  /\ \A t \in Threads :
       /\ Did(t, "Size") => ret[t].n = Cardinality(Stored)
       /\ (Did(t, "Put") \/ Did(t, "ComputeIfAbsent")) =>
            MapLen(items) = MapLen(pre[t]) + (IF Present(pre[t], key[t]) THEN 0 ELSE 1)
       /\ Did(t, "Remove") =>
            MapLen(items) = MapLen(pre[t]) - (IF Present(pre[t], key[t]) THEN 1 ELSE 0)
       /\ Did(t, "Clear") => MapLen(items) = 0

\* C12 witness: Size() has returned the number of entries the map started
\* with, right after a Remove that took out a key stored since the start.
C12_Witness ==
  /\ Did(Solo, "Size") /\ prev[Solo].op = "Remove" /\ prev[Solo].ret.b
  /\ ~Present(items0, prev[Solo].key)
  /\ ret[Solo].n = MapLen(items0) /\ ret[Solo].n > 0

\* C13: when a goroutine working alone has returned from Clear(), m.items
\* has no entry; a Size() right after it returns 0, a Get(K) or Contains(K)
\* right after it returns found = false, for the keys that were present
\* before the Clear too; a Put(K, V) right after it leaves K with V as the
\* one entry, and a Get(K) right after a Put(K, V) returns (V, true), on a
\* map that has been cleared as on any other.
C13_Clear ==
  \A t \in Threads :
    /\ Did(t, "Clear") => items = EmptyMap /\ \A k \in Keys : hist[k].how # "put"
    /\ (Did(t, "Size") /\ prev[t].op = "Clear") => ret[t].n = 0
    /\ (Did(t, "Get") /\ prev[t].op = "Clear") => ~ret[t].b /\ ret[t].v = Nil
    /\ (Did(t, "Contains") /\ prev[t].op = "Clear") => ~ret[t].b
    /\ (Did(t, "Put") /\ prev[t].op = "Clear") =>
         items = [k \in {key[t]} |-> val[t]]
    /\ (Did(t, "Get") /\ prev[t].op = "Put" /\ prev[t].key = key[t]) =>
         ret[t].b /\ ret[t].v = prev[t].val

\* C13 witness: Get(K) has returned found = false right after a Clear() of
\* a map in which K was present.
C13_Witness ==
  /\ Did(Solo, "Get") /\ prev[Solo].op = "Clear" /\ ~ret[Solo].b
  /\ Present(items0, key[Solo])

\* C13 witness of the reuse: Clear(), Put(K, V), Get(K) on a map that held K
\* with another value; the Get has returned (V, true).
C13_Reused ==
  /\ Did(Solo, "Get") /\ prev[Solo].op = "Put" /\ prev[Solo].key = key[Solo]
  /\ cnt[Solo] = MaxSeqOps
  /\ \A k \in DOMAIN items0 : k # key[Solo] => hist[k].how = "cleared"
  /\ MapLen(items0) = NKeys /\ items = [k \in {key[Solo]} |-> prev[Solo].val]
  /\ items0[key[Solo]] # prev[Solo].val
  /\ ret[Solo].b /\ ret[Solo].v = prev[Solo].val

\* How often x occurs in the sequence s.
Occurrences(s, x) == Cardinality({i \in 1..Len(s) : s[i] = x})
\* t has returned from Values() right after its Keys().
KeysThenValues(t) == Did(t, "Values") /\ prev[t].op = "Keys"

\* C14 as the specification states it: the results of Keys() and of the
\* Values() that follows it have the same length, the length Size() returns,
\* and the i-th value is the value m.items has for the i-th key.
C14_ElementWise ==
  \A t \in Threads :
    /\ KeysThenValues(t) =>
         /\ Len(ret[t].s) = Len(prev[t].ret.s)
         /\ Len(ret[t].s) = MapLen(items)
         /\ \A i \in 1..Len(ret[t].s) :
              Lookup(items, prev[t].ret.s[i]) = ret[t].s[i]
    /\ (Did(t, "Size") /\ prev[t].op \in {"Keys", "Values"}) =>
         ret[t].n = Len(prev[t].ret.s)

\* C14, amended: for a goroutine working alone, the results of Keys() and
\* of the Values() that follows it have the same length, the length a
\* following Size() returns; the keys are the keys of m.items, each once,
\* and every value occurs among the values as often as m.items has an entry
\* with it.  Nothing relates the order of the two results.
C14_SameEntries ==
  \A t \in Threads :
    /\ KeysThenValues(t) =>
         /\ Len(ret[t].s) = Len(prev[t].ret.s)
         /\ Len(ret[t].s) = MapLen(items)
         /\ {prev[t].ret.s[i] : i \in 1..Len(prev[t].ret.s)} = DOMAIN items
         /\ \A v \in Vals \cup {Nil} :
              Occurrences(ret[t].s, v) = Cardinality({k \in DOMAIN items : items[k] = v})
    /\ (Did(t, "Size") /\ prev[t].op \in {"Keys", "Values"}) =>
         ret[t].n = Len(prev[t].ret.s)

\* C14 witness: Keys() and then Values() have returned two entries each, and
\* the first value is not the value of the first key.
C14_Witness ==
  /\ KeysThenValues(Solo) /\ Len(ret[Solo].s) = 2 /\ Len(prev[Solo].ret.s) = 2
  /\ items[prev[Solo].ret.s[1]] # ret[Solo].s[1]
  /\ items[prev[Solo].ret.s[2]] = ret[Solo].s[1]

\* The elements of the sequence s.
Elements(s) == {s[i] : i \in 1..Len(s)}

\* C15: while a goroutine is in the loop of Keys(), no step changes m.items,
\* whatever Put, Remove, ComputeIfAbsent and Clear calls the other
\* goroutines have started; in the step in which Keys() returns, the result
\* holds the keys m.items has in that state, each once; and no later step
\* changes the result of a Keys() call that has returned.
C15_KeysSnapshot ==
  /\ [][\A t \in Threads :
          /\ pc[t] = "keys46" => items' = items
          /\ (pc[t] = "keys46" /\ pc'[t] = "idle") =>
               /\ Elements(ret'[t].s) = DOMAIN items
               /\ Len(ret'[t].s) = MapLen(items)
          /\ (Did(t, "Keys") /\ Did(t, "Keys")') => ret'[t] = ret[t]]_vars
  /\ [](\A t \in Threads : pc[t] = "keys46" =>
          Elements(result[t]) = visited[t] /\ visited[t] \subseteq DOMAIN items)

\* C15 witness: Keys() has returned every key there is, and the Clear() of
\* another goroutine, which took the exclusive lock after it, has left
\* m.items empty.
C15_Witness ==
  \E t, u \in Threads :
    /\ t # u /\ Did(t, "Keys") /\ Elements(ret[t].s) = Keys
    /\ Did(u, "Clear") /\ lastx = u /\ items = EmptyMap

\* t is in the loop of Range, or has left it by break.
InRange(t) == op[t] = "Range" /\ pc[t] \in {"range23", "range28"}

\* C16: while a goroutine is in the loop of Range, with an action that does
\* not call the map, no step changes m.items and the goroutine holds the
\* shared lock; the keys handed to action so far are keys of m.items, each
\* handed once.  When the loop ends because no entry is left, every key of
\* m.items has been handed to action once.  Once action has returned false,
\* the only step of the goroutine is the return, which hands no further entry
\* to action and releases the shared lock.
C16_RangeVisits ==
  /\ [](\A t \in Threads : InRange(t) =>
          /\ rheld[t] = 1 /\ ~(w # None /\ wActive)
          /\ Elements(result[t]) = visited[t]
          /\ Len(result[t]) = Cardinality(visited[t])
          /\ visited[t] \subseteq DOMAIN items)
  /\ [][\A t \in Threads :
          /\ InRange(t) => items' = items
          /\ (pc[t] = "range23" /\ pc'[t] = "idle") =>
               /\ Elements(ret'[t].s) = DOMAIN items
               /\ Len(ret'[t].s) = MapLen(items)
               /\ rheld'[t] = 0
          /\ (pc[t] = "range28" /\ pc'[t] = "range28") => result'[t] = result[t]
          /\ (pc[t] = "range28" /\ pc'[t] # "range28") =>
               /\ pc'[t] = "idle"
               /\ ret'[t].s = result[t]
               /\ rheld'[t] = 0]_vars

\* C16 witness: action has returned false for the first of two entries, and
\* a writer that has announced itself waits for the Range to release the
\* shared lock.
C16_Witness ==
  \E t, u \in Threads :
    /\ op[t] = "Range" /\ pc[t] = "range28"
    /\ Len(result[t]) = 1 /\ MapLen(items) = 2
    /\ w = u /\ ~wActive /\ pc[u] = "clear105"

\* C17: under the Go scheduler, with a compFunction and an action that
\* return and do not call the map, whenever a goroutine is inside a method
\* some goroutine inside a method can take a step, and every call of any of
\* the ten methods returns, whatever the other goroutines call.
C17_EveryCallReturns ==
  /\ []((\E t \in Users : ~Idle(t)) => ENABLED (\E t \in Users : Step(t)))
  /\ \A t \in Users : (~Idle(t)) ~> Idle(t)

\* C17 witness: a writer has announced itself and waits for a reader that is
\* in the loop of Values.
C17_Witness ==
  \E t, u \in Users :
    /\ w = t /\ ~wActive /\ pc[t] = "remove88"
    /\ pc[u] = "values35" /\ rheld[u] = 1 /\ Remaining(u) # {}

\* C18: when no goroutine is inside a method, the lock has no shared holder
\* and no exclusive holder and nobody sleeps for it, however the calls have
\* ended: by return, by the failure of compFunction, or by the stop or the
\* failure of the action passed to Range.
C18_IdleMeansUnlocked ==
  (\A t \in Threads : Idle(t)) =>
    /\ \A t \in Threads : rheld[t] = 0
    /\ w = None /\ ~wActive
    /\ rblocked = {}

\* t sleeps in the RLock of a method its Range action called, behind a
\* writer that has announced itself, while it holds the shared lock of its
\* Range.
AsleepHolding(t) == op[t] = "Range" /\ t \in rblocked /\ rheld[t] > 0

\* C19 as the specification states it: a goroutine whose Range action calls
\* Get, Contains or Size never waits for a shared lock while it holds one,
\* whatever Put, Remove and Clear calls other goroutines make.
C19_ReadingRangeNeverWaits ==
  \A t \in Threads : ~AsleepHolding(t)

\* C19, amended: a goroutine in a Range whose action calls Get, Contains or
\* Size can take a step unless it sleeps in RLock, and its Range returns
\* unless some goroutine comes to sleep in the RLock of the method its
\* Range action called.  That happens when a writer has announced itself
\* since that Range took the shared lock: the writer waits for that shared
\* lock, and from then on neither of the two takes a step.
C19_ReadingRange ==
  /\ [](\A t \in Users : (op[t] = "Range" /\ ~Idle(t) /\ t \notin rblocked) =>
          ENABLED ReadReentStep(t))
  /\ [](\A t \in Users : AsleepHolding(t) =>
          /\ cb[t] \in ReadCallbackOps /\ pc[t] \in {"get55", "size97"}
          /\ w \in Users \ {t} /\ ~wActive
          /\ pc[w] \in {"put69", "remove88", "clear105"}
          /\ ~ENABLED ReadReentStep(t) /\ ~ENABLED ReadReentStep(w))
  /\ [][\A t \in Users : AsleepHolding(t) =>
          /\ AsleepHolding(t)' /\ pc'[t] = pc[t]
          /\ w' = w /\ wActive' = wActive /\ pc'[w] = pc[w]]_vars
  /\ \A t \in Users :
       (op[t] = "Range" /\ ~Idle(t)) ~> (Idle(t) \/ \E u \in Users : AsleepHolding(u))

\* C19 witness: the action of a Range has called Get and sleeps in its
\* RLock behind the Put of another goroutine, which waits for the shared
\* lock of the Range.
C19_Witness ==
  \E t, u \in Users :
    /\ AsleepHolding(t) /\ cb[t] = "Get" /\ pc[t] = "get55"
    /\ w = u /\ ~wActive /\ pc[u] = "put69"

\* The methods that only read m.items.
ReadOps == {"Get", "Contains", "Size", "Keys", "Values", "Range"}
\* m1 and m2 agree on every key but k.
SameBut(m1, m2, k) ==
  \A k2 \in Keys \ {k} :
    Present(m1, k2) = Present(m2, k2) /\ Lookup(m1, k2) = Lookup(m2, k2)

\* C20: a step that changes m.items is line 70 of a Put (called by the user
\* or by ComputeIfAbsent), line 89 of a Remove or lines 106-107 of a Clear,
\* taken by the goroutine that holds the exclusive lock; the first two
\* change nothing but the entry of their key.  A call of Get, Contains,
\* Size, Keys, Values or Range (with an action that does not call the map)
\* has written nothing and has never held the exclusive lock when it
\* returns, and so have a ComputeIfAbsent whose m.Get found the key and a
\* Remove whose m.Get did not.
C20_Frame ==
  /\ [][items' # items =>
          \E t \in Threads :
            /\ w = t /\ wActive /\ pc'[t] # pc[t]
            /\ \/ /\ pc[t] = "put70" /\ op[t] \in {"Put", "ComputeIfAbsent"}
                  /\ SameBut(items, items', key[t])
               \/ /\ pc[t] = "remove89" /\ op[t] = "Remove"
                  /\ SameBut(items, items', key[t])
               \/ pc[t] = "clear106" /\ op[t] = "Clear"]_vars
  /\ [](\A t \in Threads :
          /\ (op[t] \in ReadOps /\ cnt[t] > 0) => ~wr[t] /\ ~xl[t] /\ w # t
          /\ (Did(t, "ComputeIfAbsent") /\ chk[t]) => ~wr[t] /\ ~xl[t] /\ ncomp[t] = 0
          /\ (Did(t, "Remove") /\ ~chk[t]) => ~wr[t] /\ ~xl[t]
          /\ (Did(t, "Put") \/ (Did(t, "ComputeIfAbsent") /\ ~chk[t])) => wr[t] /\ xl[t]
          /\ (\A u \in Threads \ {t} : cnt[u] = 0) =>
               /\ (Idle(t) /\ ~wr[t]) => items = pre[t]
               /\ (Did(t, "Put") \/ Did(t, "Remove")) => SameBut(pre[t], items, key[t]))

\* C20 witness: a ComputeIfAbsent has returned the value of a key it found,
\* without the exclusive lock, and the Put of another goroutine has changed
\* the entry of another key and nothing else.
C20_Witness ==
  \E t, u \in Threads :
    /\ Did(t, "ComputeIfAbsent") /\ chk[t] /\ ~xl[t]
    /\ Did(u, "Put") /\ key[u] # key[t]
    /\ items # items0 /\ SameBut(items0, items, key[u])
    /\ Present(items0, key[u]) /\ Lookup(items, key[u]) = val[u]
====
